---- MODULE Spec2Model ----
(***************************************************************************)
(* tunetrack: the fingerprint / sample / catalog pipeline.                 *)
(*                                                                         *)
(* The repository holds two orchestrators with the same catalog functions: *)
(* src/working/working.py (ffmpeg sampling) and src/main3.py (pydub        *)
(* sampling).  The variable `variant` says which script runs.              *)
(*                                                                         *)
(* Modelling conventions                                                   *)
(*   - a Python str is a sequence of one-character strings;                *)
(*   - an Optional[str] is a record [some, val], None == [some |-> FALSE]; *)
(*   - a Python return value of the catalog functions is [none, val];      *)
(*   - a float score is the exact rational [err, num, den];                *)
(*   - a path is a record [dir, base, kind, dur, ext]:                     *)
(*       kind = "plain"  : <dir>/<base>.<ext>                              *)
(*       kind = "sample" : <dir>/<base>_sample_<dur>s.<ext>                *)
(*   - the answers of the outside world (ffmpeg, fpcalc, pydub, sqlite     *)
(*     I/O) are inputs drawn with \E in the actions.                       *)
(*                                                                         *)
(* Specifications                                                          *)
(*   Spec         : main and process_audio_file over a listing;            *)
(*   FairSpec     : Spec with weak fairness of its steps (termination);    *)
(*   SpecScore    : calculate_percentage_match on drawn fingerprints;      *)
(*   SpecCatalog  : the four catalog functions called directly;            *)
(*   SpecScan     : the scan of fpcalc's output for "FINGERPRINT=";        *)
(*   SpecDuration : the -t argument built from sample_duration.            *)
(***************************************************************************)
EXTENDS Integers, Sequences, FiniteSets, TLC

VARIABLES
    variant,      \* "working" (src/working/working.py) or "main3" (src/main3.py)
    files,        \* os.listdir(input_folder): a sequence of [base, ext]
    db,           \* the SQLite catalog: [schema, songs, samples, fingerprints]
    pc,           \* position of the run
    i,            \* index in files of the loop variable `filename`
    input_file,   \* local of process_audio_file (main3 re-assigns it)
    working_file, \* local of process_audio_file: the file the sample is cut from
    output_file,  \* local of process_audio_file: the sample path
    full_fp,      \* local full_song_fingerprint
    sample_fp,    \* local sample_fingerprint
    visited,      \* history: pipeline states passed by the current file
    calls,        \* history: external calls made for the current file
    base,         \* history: the catalog when the current file started
    reports,      \* history: one report per file taken from the listing
    exit,         \* what ended the process early ("none" while it has not)
    hash1,        \* scorer specification: first argument
    hash2,        \* scorer specification: second argument
    score,        \* scorer specification: the value returned
    score_rev,    \* scorer specification: the value returned for swapped arguments
    score_plain,  \* scorer specification: the value returned without truncation
    stdout,       \* fingerprint-scan specification: the lines fpcalc printed
    sample_duration,    \* trim-argument specification: the requested seconds
    formatted_duration, \* trim-argument specification: the -t argument built
    lastcall,     \* catalog specification: the last catalog call
    ret           \* catalog specification: the value it returned

vars == << variant, files, db, pc, i, input_file, working_file, output_file,
           full_fp, sample_fp, visited, calls, base, reports, exit,
           hash1, hash2, score, score_rev, score_plain, stdout, sample_duration,
           formatted_duration, lastcall, ret >>

scoreVars == << hash1, hash2, score, score_rev, score_plain >>
toolVars == << stdout, sample_duration, formatted_duration >>
apiVars == << lastcall, ret >>

----------------------------------------------------------------------------
(* Bounds *)

MaxFiles == 2
MaxFpLen == 3
MaxApiCalls == 3

----------------------------------------------------------------------------
(* Small helpers *)

Min(a, b) == IF a <= b THEN a ELSE b

IsPrefix(s, t) == Len(s) <= Len(t) /\ SubSeq(t, 1, Len(s)) = s

SeqsUpTo(S, n) == UNION { [1..k -> S] : k \in 0..n }

----------------------------------------------------------------------------
(* Python values *)

None == [some |-> FALSE, val |-> << >>]
Some(s) == [some |-> TRUE, val |-> s]
\* `not x` for an Optional[str]: None and "" are both falsy
Falsy(x) == ~x.some \/ x.val = << >>

PyNone == [none |-> TRUE, val |-> 0]
PyInt(n) == [none |-> FALSE, val |-> n]

NoPath == [dir |-> "", base |-> "", kind |-> "", dur |-> 0, ext |-> ""]
NoScore == [err |-> FALSE, num |-> -1, den |-> 1]

----------------------------------------------------------------------------
(* SimilarityScorer: calculate_percentage_match                            *)

\* a float as an exact rational; err stands for a raised ZeroDivisionError
Float(n, d) == [err |-> FALSE, num |-> n, den |-> d]
ZeroDivisionError == [err |-> TRUE, num |-> 0, den |-> 0]

\* Python's  a / b
PyDiv(a, b) == IF b = 0 THEN ZeroDivisionError ELSE Float(a, b)

\* Python's  x * 100.0
Times100(x) == IF x.err THEN x ELSE Float(x.num * 100, x.den)

\* sum(1 for i in range(n) if hash1[i] == hash2[i])
RECURSIVE CountMatches(_, _, _)
CountMatches(h1, h2, n) ==
    IF n = 0 THEN 0
    ELSE CountMatches(h1, h2, n - 1) + (IF h1[n] = h2[n] THEN 1 ELSE 0)

\* mutant: the guard against empty arguments is dropped
calculate_percentage_match_noguard(h1, h2) ==
    LET min_length == Min(Len(h1), Len(h2))
        matches == CountMatches(h1, h2, min_length)
    IN  Times100(PyDiv(matches, min_length))

\* mutant: the count is not divided by the compared length
calculate_percentage_match_nodiv(h1, h2) ==
    IF h1 = << >> \/ h2 = << >> THEN Float(0, 1)
    ELSE LET min_length == Min(Len(h1), Len(h2))
             matches == CountMatches(h1, h2, min_length)
         IN  Times100(Float(matches, 1))

\* mutant: the count is divided by the second argument's length
calculate_percentage_match_len2(h1, h2) ==
    IF h1 = << >> \/ h2 = << >> THEN Float(0, 1)
    ELSE LET min_length == Min(Len(h1), Len(h2))
             matches == CountMatches(h1, h2, min_length)
         IN  Times100(PyDiv(matches, Len(h2)))

calculate_percentage_match(h1, h2) ==
    IF h1 = << >> \/ h2 = << >> THEN Float(0, 1)
    ELSE LET min_length == Min(Len(h1), Len(h2))
             matches == CountMatches(h1, h2, min_length)
         IN  Times100(PyDiv(matches, min_length))

\* mutant: the last len(sample) characters are kept, not the first
Truncate_tail(full, sample) ==
    SubSeq(full, Len(full) - Min(Len(full), Len(sample)) + 1, Len(full))

\* full_song_fingerprint[:len(sample_fingerprint)]
Truncate(full, sample) == SubSeq(full, 1, Min(Len(full), Len(sample)))

\* step 5 of process_audio_file: truncate, then score
match_percentage(full, sample) ==
    calculate_percentage_match(Truncate(full, sample), sample)

----------------------------------------------------------------------------
(* Catalog: the SQLite database                                            *)

\* columns named in the INSERT INTO songs statement, and its "?" placeholders
SongColumns == 7
SongPlaceholders == 8

DbFresh == [schema |-> FALSE, songs |-> << >>, samples |-> << >>,
            fingerprints |-> << >>]

SongRow(id, title, dur) ==
    [song_id |-> id, song_title |-> title, artist_name |-> "Unknown Artist",
     album_title |-> "Unknown Album", release_date |-> "None",
     duration |-> dur, isrc |-> "None", mbid |-> "None"]

SampleRow(id, song_id, path, dur) ==
    [sample_id |-> id, song_id |-> song_id, sample_path |-> path,
     sample_duration |-> dur]

FingerprintRow(id, sample_id, fp) ==
    [fingerprint_id |-> id, sample_id |-> sample_id, fingerprint |-> fp]

\* mutant: an existing schema is dropped and created again
create_database_recreates(d, open) ==
    IF ~open THEN [db |-> d, raised |-> "UnboundLocalError"]
    ELSE [db |-> [DbFresh EXCEPT !.schema = TRUE], raised |-> "none"]

\* create_database.  open = FALSE: sqlite3.connect raises; the handler then
\* reads the unbound local `conn`, so an UnboundLocalError leaves the function.
\* An existing schema makes CREATE TABLE songs raise; that error is caught
\* and rolled back.
create_database(d, open) ==
    IF ~open THEN [db |-> d, raised |-> "UnboundLocalError"]
    ELSE IF d.schema THEN [db |-> d, raised |-> "none"]
    ELSE [db |-> [d EXCEPT !.schema = TRUE], raised |-> "none"]

\* the UNIQUE constraints of songs (NULLs never conflict)
SongUniqueOk(d, row) ==
    \A k \in 1..Len(d.songs) :
        /\ (row.isrc = "None" \/ d.songs[k].isrc # row.isrc)
        /\ (row.mbid = "None" \/ d.songs[k].mbid # row.mbid)

\* what sqlite3.Error makes of an insert: rollback, nothing written.
\* kind is the class of the error whose message is printed.
InsertError(d, r, kind) == [db |-> d, ret |-> r, error |-> TRUE, kind |-> kind]

\* the error of a statement SQLite cannot run at all: the database cannot be
\* opened or written, or the table does not exist
CannotRun(d, io) == ~io \/ ~d.schema

\* mutant: the failed statement leaves its row behind
insert_song_data_norollback(d, row, io) ==
    [db |-> [d EXCEPT !.songs =
                        Append(@, [row EXCEPT !.song_id = Len(d.songs) + 1])],
     ret |-> PyInt(-1), error |-> TRUE, kind |-> "OperationalError"]

\* insert_song_data.  io = FALSE: the database cannot be opened or written.
\* The statement has SongPlaceholders "?" for SongColumns columns, which
\* SQLite rejects ("8 values for 7 columns") when it prepares the statement,
\* before any constraint is looked at and before any row is written.
insert_song_data(d, row, io) ==
    IF CannotRun(d, io) \/ SongPlaceholders # SongColumns
    THEN InsertError(d, PyInt(-1), "OperationalError")
    ELSE IF ~SongUniqueOk(d, row)
    THEN InsertError(d, PyInt(-1), "IntegrityError")
    ELSE LET id == Len(d.songs) + 1
         IN  [db |-> [d EXCEPT !.songs = Append(@, [row EXCEPT !.song_id = id])],
              ret |-> PyInt(id), error |-> FALSE, kind |-> "none"]

\* insert_sample_data.  Foreign keys are not enforced (no PRAGMA foreign_keys)
insert_sample_data(d, song_id, path, dur, io) ==
    IF CannotRun(d, io)
    THEN InsertError(d, PyInt(-1), "OperationalError")
    ELSE LET id == Len(d.samples) + 1
         IN  [db |-> [d EXCEPT !.samples =
                                 Append(@, SampleRow(id, song_id, path, dur))],
              ret |-> PyInt(id), error |-> FALSE, kind |-> "none"]

\* insert_fingerprint_data: no return statement, so None on both paths.
\* fingerprint is NOT NULL, so a None value is a constraint error.
insert_fingerprint_data(d, sample_id, fp, io) ==
    IF CannotRun(d, io)
    THEN InsertError(d, PyNone, "OperationalError")
    ELSE IF ~fp.some
    THEN InsertError(d, PyNone, "IntegrityError")
    ELSE LET id == Len(d.fingerprints) + 1
         IN  [db |-> [d EXCEPT !.fingerprints =
                                 Append(@, FingerprintRow(id, sample_id, fp.val))],
              ret |-> PyNone, error |-> FALSE, kind |-> "none"]

----------------------------------------------------------------------------
(* Files and paths                                                         *)

\* the default of process_audio_file's sample_duration; main never passes one
DefaultSampleDuration == 10

\* directory entries the listing may hold
FileUniverse ==
    { [base |-> "song", ext |-> "wav"], [base |-> "song", ext |-> "mp3"],
      [base |-> "song", ext |-> "flac"], [base |-> "tune", ext |-> "WAV"],
      [base |-> "notes", ext |-> "txt"] }

NoRepeat(s) == \A a, b \in 1..Len(s) : a # b => s[a] # s[b]

Listings == { s \in SeqsUpTo(FileUniverse, MaxFiles) : NoRepeat(s) }

\* str.lower() on an extension
LowerExt(e) == IF e = "WAV" THEN "wav" ELSE e

\* filename.lower().endswith(('.mp3', '.wav', '.flac', '.ogg', '.aac'))
Supported(f) == LowerExt(f.ext) \in {"mp3", "wav", "flac", "ogg", "aac"}

\* input_file.lower().endswith(".wav")
EndsWithWav(p) == LowerExt(p.ext) = "wav"

\* os.path.join(input_folder, filename)
InputPath(f) ==
    [dir |-> "in", base |-> f.base, kind |-> "plain", dur |-> 0, ext |-> f.ext]

\* mutant: the transcoded file keeps the source's extension in its name
WavPath_keepext(p) ==
    [dir |-> "out", base |-> p.base, kind |-> "plain", dur |-> 0, ext |-> p.ext]

\* os.path.join(output_folder, splitext(basename(input_file))[0] + ".wav")
WavPath(p) ==
    [dir |-> "out", base |-> p.base, kind |-> "plain", dur |-> 0, ext |-> "wav"]

\* os.path.join(output_folder,
\*              splitext(basename(working_file))[0] + f"_sample_{d}s.wav")
SamplePath(p, d) ==
    [dir |-> "out", base |-> p.base, kind |-> "sample", dur |-> d, ext |-> "wav"]

----------------------------------------------------------------------------
(* The outside world                                                       *)

\* an external program: it ran and exited 0, ran and failed, or was not found
ToolOutcomes == {"ok", "fail", "missing"}

\* fingerprints the fingerprint tool may print
FpA == << "A", "B" >>
FpB == << "A", "C", "B" >>

\* fpcalc: how it ended, and what a scan of its standard output yields
\* (a run that fails may still have printed a fingerprint)
FpOutcomes ==
    [res : {"ok"}, fp : {None, Some(<< >>), Some(FpA), Some(FpB)}]
    \cup [res : {"fail"}, fp : {None, Some(FpA)}]
    \cup [res : {"missing"}, fp : {None}]

\* one external call, as recorded in the history
Call(op, path, res, got) == [op |-> op, path |-> path, res |-> res, got |-> got]

\* the history keeps of an fpcalc call whether the binary was found
Ran(o) == IF o.res = "missing" THEN "missing" ELSE "ran"

Got(fp) == IF ~fp.some THEN "none" ELSE IF fp.val = << >> THEN "empty" ELSE "value"

----------------------------------------------------------------------------
(* PipelineOrchestrator: the steps of process_audio_file                   *)
(* Each step returns ctl = "next" (go on), "return" (this file is given    *)
(* up) or "exit" (the process ends).                                       *)

\* mutant: a failed conversion is not noticed and the file goes on
convert_step_failcontinues(v, inp, outcome) ==
    IF EndsWithWav(inp)
    THEN [ctl |-> "next", reason |-> "", input_file |-> inp,
          working_file |-> inp, calls |-> << >>]
    ELSE LET c == << Call("ffmpeg_convert", inp, outcome, "n/a") >>
         IN  IF outcome = "missing"
             THEN [ctl |-> "exit",
                   reason |-> IF v = "main3" THEN "FileNotFoundError"
                              ELSE "SystemExit",
                   input_file |-> inp, working_file |-> inp, calls |-> c]
             ELSE [ctl |-> "next", reason |-> "",
                   input_file |-> IF v = "main3" THEN WavPath(inp) ELSE inp,
                   working_file |-> WavPath(inp), calls |-> c]

\* step 1: convert to WAV if necessary.
\* working.py: CalledProcessError -> return, FileNotFoundError -> sys.exit(1).
\* main3.py: returncode # 0 -> return; a missing ffmpeg raises
\* FileNotFoundError out of subprocess.run, which nothing catches; on
\* success input_file itself is re-assigned to the WAV file.
convert_step(v, inp, outcome) ==
    IF EndsWithWav(inp)
    THEN [ctl |-> "next", reason |-> "", input_file |-> inp,
          working_file |-> inp, calls |-> << >>]
    ELSE LET c == << Call("ffmpeg_convert", inp, outcome, "n/a") >>
         IN  CASE outcome = "ok" ->
                    [ctl |-> "next", reason |-> "",
                     input_file |-> IF v = "main3" THEN WavPath(inp) ELSE inp,
                     working_file |-> WavPath(inp), calls |-> c]
               [] outcome = "fail" ->
                    [ctl |-> "return", reason |-> "ConversionFailed",
                     input_file |-> inp, working_file |-> inp, calls |-> c]
               [] outcome = "missing" ->
                    [ctl |-> "exit",
                     reason |-> IF v = "main3" THEN "FileNotFoundError"
                                ELSE "SystemExit",
                     input_file |-> inp, working_file |-> inp, calls |-> c]

\* step 2: create the sample.
\* working.py: ffmpeg -i working_file -ss 00:00:00 -t ... output_file;
\* CalledProcessError -> return, FileNotFoundError -> sys.exit(1).
\* main3.py: create_sample_pydub catches every Exception and returns None,
\* also when pydub cannot find its converter binary.
sample_step(v, wf, dur, outcome) ==
    IF v = "working"
    THEN LET out == SamplePath(wf, dur)
             c == << Call("ffmpeg_sample", wf, outcome, "n/a") >>
         IN  CASE outcome = "ok" ->
                    [ctl |-> "next", reason |-> "", output_file |-> out,
                     calls |-> c]
               [] outcome = "fail" ->
                    [ctl |-> "return", reason |-> "SamplingFailed",
                     output_file |-> out, calls |-> c]
               [] outcome = "missing" ->
                    [ctl |-> "exit", reason |-> "SystemExit",
                     output_file |-> out, calls |-> c]
    ELSE LET c == << Call("pydub_sample", wf, outcome, "n/a") >>
         IN  IF outcome = "ok"
             THEN [ctl |-> "next", reason |-> "",
                   output_file |-> SamplePath(wf, dur), calls |-> c]
             ELSE [ctl |-> "return", reason |-> "SamplingFailed",
                   output_file |-> NoPath, calls |-> c]

\* calculate_fingerprint: FileNotFoundError -> sys.exit(1); otherwise the
\* value found in the output, or None.  main3.py runs fpcalc with check=True
\* and returns None on a non-zero exit status; working.py scans the output
\* whatever the exit status.
calculate_fingerprint(v, o) ==
    IF o.res = "missing" THEN [exit |-> TRUE, fp |-> None]
    ELSE IF v = "main3" /\ o.res = "fail" THEN [exit |-> FALSE, fp |-> None]
    ELSE [exit |-> FALSE, fp |-> o.fp]

\* mutant: only None counts as a missing fingerprint
fingerprints_missing_isnone(full, sample) == ~full.some \/ ~sample.some

\* if not full_song_fingerprint or not sample_fingerprint
fingerprints_missing(full, sample) == Falsy(full) \/ Falsy(sample)

\* step 3: fingerprint input_file, then output_file
fingerprint_step(v, inp, out, o1, o2) ==
    LET r1 == calculate_fingerprint(v, o1)
        c1 == Call("fpcalc", inp, Ran(o1), Got(r1.fp))
        r2 == calculate_fingerprint(v, o2)
        c2 == Call("fpcalc", out, Ran(o2), Got(r2.fp))
    IN  IF r1.exit
        THEN [ctl |-> "exit", reason |-> "SystemExit", full |-> None,
              sample |-> None, calls |-> << c1 >>]
        ELSE IF r2.exit
        THEN [ctl |-> "exit", reason |-> "SystemExit", full |-> r1.fp,
              sample |-> None, calls |-> << c1, c2 >>]
        ELSE IF fingerprints_missing(r1.fp, r2.fp)
        THEN [ctl |-> "return", reason |-> "FingerprintMissing",
              full |-> r1.fp, sample |-> r2.fp, calls |-> << c1, c2 >>]
        ELSE [ctl |-> "next", reason |-> "", full |-> r1.fp,
              sample |-> r2.fp, calls |-> << c1, c2 >>]

\* mutant: the failure value is looked for as None
insert_failed_isnone(r) == r.none

\* if song_id == -1 / if sample_id == -1
insert_failed(r) == ~r.none /\ r.val = -1

InsertRes(r) == IF r.error THEN "fail" ELSE "ok"

\* the history keeps of an insert whether the database could be written
IoGot(io) == IF io THEN "io_ok" ELSE "io_error"

\* mutant: the match is computed and printed before the inserts
persist_and_score_scorefirst(d, inp, out, dur, full, sample, ioS, ioA, ioF) ==
    LET r1 == insert_song_data(d, SongRow(0, inp.base, dur), ioS)
        c1 == Call("insert_song_data", inp, InsertRes(r1), IoGot(ioS))
        r2 == insert_sample_data(r1.db, r1.ret.val, out, dur, ioA)
        c2 == Call("insert_sample_data", out, InsertRes(r2), IoGot(ioA))
        r3 == insert_fingerprint_data(r2.db, r2.ret.val, sample, ioF)
        c3 == Call("insert_fingerprint_data", out, InsertRes(r3), IoGot(ioF))
        sc == match_percentage(full.val, sample.val)
    IN  IF insert_failed(r1.ret)
        THEN [db |-> r1.db, status |-> "Aborted", reason |-> "InsertFailed",
              calls |-> << c1 >>, visited |-> << "Scored" >>, score |-> sc]
        ELSE IF insert_failed(r2.ret)
        THEN [db |-> r2.db, status |-> "Aborted", reason |-> "InsertFailed",
              calls |-> << c1, c2 >>, visited |-> << "Scored" >>, score |-> sc]
        ELSE [db |-> r3.db, status |-> "Persisted", reason |-> "",
              calls |-> << c1, c2, c3 >>,
              visited |-> << "Scored", "Persisted" >>, score |-> sc]

\* steps 4 and 5: insert Song, Sample, Fingerprint, then print the match
persist_and_score(d, inp, out, dur, full, sample, ioS, ioA, ioF) ==
    LET r1 == insert_song_data(d, SongRow(0, inp.base, dur), ioS)
        c1 == Call("insert_song_data", inp, InsertRes(r1), IoGot(ioS))
        r2 == insert_sample_data(r1.db, r1.ret.val, out, dur, ioA)
        c2 == Call("insert_sample_data", out, InsertRes(r2), IoGot(ioA))
        r3 == insert_fingerprint_data(r2.db, r2.ret.val, sample, ioF)
        c3 == Call("insert_fingerprint_data", out, InsertRes(r3), IoGot(ioF))
    IN  IF insert_failed(r1.ret)
        THEN [db |-> r1.db, status |-> "Aborted", reason |-> "InsertFailed",
              calls |-> << c1 >>, visited |-> << >>, score |-> NoScore]
        ELSE IF insert_failed(r2.ret)
        THEN [db |-> r2.db, status |-> "Aborted", reason |-> "InsertFailed",
              calls |-> << c1, c2 >>, visited |-> << >>, score |-> NoScore]
        ELSE [db |-> r3.db, status |-> "Persisted", reason |-> "",
              calls |-> << c1, c2, c3 >>,
              visited |-> << "Persisted", "Scored" >>,
              score |-> match_percentage(full.val, sample.val)]

----------------------------------------------------------------------------
(* The run: main and process_audio_file                                    *)

\* an existing catalog with the schema and no rows
DbEmpty == [DbFresh EXCEPT !.schema = TRUE]

\* an existing catalog that already holds a track
DbSeeded ==
    [schema |-> TRUE,
     songs |-> << SongRow(1, "old", DefaultSampleDuration) >>,
     samples |-> << SampleRow(1, 1,
                      SamplePath([base |-> "old"], DefaultSampleDuration),
                      DefaultSampleDuration) >>,
     fingerprints |-> << FingerprintRow(1, 1, FpA) >>]

\* one catalog call, as recorded: the function, its arguments, whether the
\* database could be opened and written, whether the call printed an error
\* and the class of that error
ApiCall(op, args, io, error, kind) ==
    [op |-> op, args |-> args, io |-> io, error |-> error, kind |-> kind]

NoCall == ApiCall("", << >>, TRUE, FALSE, "none")

\* rows table t2 holds beyond those of t1
NewRows(t1, t2) == SubSeq(t2, Len(t1) + 1, Len(t2))

\* what is known of one file when the run leaves it
Report(f, status, reason, vis, cs, d1, d2, sc, fp) ==
    [file |-> f, status |-> status, reason |-> reason, visited |-> vis,
     calls |-> cs, songs |-> NewRows(d1.songs, d2.songs),
     samples |-> NewRows(d1.samples, d2.samples),
     fingerprints |-> NewRows(d1.fingerprints, d2.fingerprints),
     kept |-> /\ IsPrefix(d1.songs, d2.songs)
              /\ IsPrefix(d1.samples, d2.samples)
              /\ IsPrefix(d1.fingerprints, d2.fingerprints),
     score |-> sc, inserted_fp |-> fp]

IdleLocals ==
    /\ input_file = NoPath /\ working_file = NoPath /\ output_file = NoPath
    /\ full_fp = None /\ sample_fp = None
    /\ visited = << >> /\ calls = << >>

PipeInit ==
    /\ variant \in {"working", "main3"}
    /\ files \in Listings
    /\ db \in {DbFresh, DbEmpty, DbSeeded}
    /\ pc = "main"
    /\ i = 1
    /\ IdleLocals
    /\ base = db
    /\ reports = << >>
    /\ exit = "none"

IdleScore ==
    /\ hash1 = << >> /\ hash2 = << >>
    /\ score = NoScore /\ score_rev = NoScore /\ score_plain = NoScore

IdleTools ==
    /\ stdout = << >>
    /\ sample_duration = DefaultSampleDuration
    /\ formatted_duration = << >>

Init ==
    /\ PipeInit
    /\ IdleScore
    /\ IdleTools
    /\ lastcall = NoCall /\ ret = PyNone

\* process_audio_file returns: the loop takes the next entry
Return(status, reason, d2, vis, cs, sc) ==
    /\ db' = d2
    /\ reports' = Append(reports,
                         Report(files[i], status, reason, vis, cs, base, d2, sc,
                                IF status = "Persisted" THEN sample_fp ELSE None))
    /\ i' = i + 1
    /\ pc' = "loop"
    /\ input_file' = NoPath /\ working_file' = NoPath /\ output_file' = NoPath
    /\ full_fp' = None /\ sample_fp' = None
    /\ visited' = << >> /\ calls' = << >>
    /\ base' = d2
    /\ exit' = exit

\* sys.exit(1), or an exception nothing catches: the process ends
ExitProcess(reason, vis, cs) ==
    /\ reports' = Append(reports,
                         Report(files[i], "Exited", reason, vis, cs, base, db,
                                NoScore, None))
    /\ pc' = "exit"
    /\ exit' = reason
    /\ input_file' = NoPath /\ working_file' = NoPath /\ output_file' = NoPath
    /\ full_fp' = None /\ sample_fp' = None
    /\ visited' = << >> /\ calls' = << >>
    /\ UNCHANGED << db, base, i >>

\* main: create_database(db_path), then the output folder
CreateDatabase ==
    /\ pc = "main"
    /\ \E open \in BOOLEAN :
          LET r == create_database(db, open)
          IN  /\ db' = r.db
              /\ base' = r.db
              /\ IF r.raised = "none"
                 THEN pc' = "loop" /\ exit' = exit
                 ELSE pc' = "exit" /\ exit' = r.raised
    /\ UNCHANGED << variant, files, i, input_file, working_file, output_file,
                    full_fp, sample_fp, visited, calls, reports >>
    /\ UNCHANGED << scoreVars, toolVars, apiVars >>

\* main: the loop takes a supported file and calls process_audio_file
MainCall ==
    /\ pc = "loop"
    /\ i <= Len(files)
    /\ Supported(files[i])
    /\ pc' = "Start"
    /\ input_file' = InputPath(files[i])
    /\ visited' = << "Start" >>
    /\ calls' = << >>
    /\ base' = db
    /\ UNCHANGED << variant, files, db, i, working_file, output_file, full_fp,
                    sample_fp, reports, exit >>
    /\ UNCHANGED << scoreVars, toolVars, apiVars >>

\* main: the loop skips an entry that is no supported audio file
MainSkip ==
    /\ pc = "loop"
    /\ i <= Len(files)
    /\ ~Supported(files[i])
    /\ reports' = Append(reports,
                         Report(files[i], "Skipped", "", << >>, << >>, db, db,
                                NoScore, None))
    /\ i' = i + 1
    /\ UNCHANGED << variant, files, db, pc, input_file, working_file,
                    output_file, full_fp, sample_fp, visited, calls, base, exit >>
    /\ UNCHANGED << scoreVars, toolVars, apiVars >>

\* main: the listing is exhausted
MainDone ==
    /\ pc = "loop"
    /\ i > Len(files)
    /\ pc' = "finished"
    /\ UNCHANGED << variant, files, db, i, input_file, working_file,
                    output_file, full_fp, sample_fp, visited, calls, base,
                    reports, exit >>
    /\ UNCHANGED << scoreVars, toolVars, apiVars >>

\* process_audio_file, step 1
Convert ==
    /\ pc = "Start"
    /\ \E outcome \in ToolOutcomes :
          LET r == convert_step(variant, input_file, outcome)
              cs == calls \o r.calls
          IN  CASE r.ctl = "next" ->
                     /\ pc' = "Converted"
                     /\ input_file' = r.input_file
                     /\ working_file' = r.working_file
                     /\ visited' = Append(visited, "Converted")
                     /\ calls' = cs
                     /\ UNCHANGED << db, i, output_file, full_fp, sample_fp,
                                     base, reports, exit >>
                [] r.ctl = "return" ->
                     Return("Aborted", r.reason, db, visited, cs, NoScore)
                [] r.ctl = "exit" -> ExitProcess(r.reason, visited, cs)
    /\ UNCHANGED << variant, files >>
    /\ UNCHANGED << scoreVars, toolVars, apiVars >>

\* process_audio_file, step 2
CreateSample ==
    /\ pc = "Converted"
    /\ \E outcome \in ToolOutcomes :
          LET r == sample_step(variant, working_file, DefaultSampleDuration,
                               outcome)
              cs == calls \o r.calls
          IN  CASE r.ctl = "next" ->
                     /\ pc' = "Sampled"
                     /\ output_file' = r.output_file
                     /\ visited' = Append(visited, "Sampled")
                     /\ calls' = cs
                     /\ UNCHANGED << db, i, input_file, working_file, full_fp,
                                     sample_fp, base, reports, exit >>
                [] r.ctl = "return" ->
                     Return("Aborted", r.reason, db, visited, cs, NoScore)
                [] r.ctl = "exit" -> ExitProcess(r.reason, visited, cs)
    /\ UNCHANGED << variant, files >>
    /\ UNCHANGED << scoreVars, toolVars, apiVars >>

\* process_audio_file, step 3
Fingerprint ==
    /\ pc = "Sampled"
    /\ \E o1, o2 \in FpOutcomes :
          LET r == fingerprint_step(variant, input_file, output_file, o1, o2)
              cs == calls \o r.calls
          IN  CASE r.ctl = "next" ->
                     /\ pc' = "Fingerprinted"
                     /\ full_fp' = r.full
                     /\ sample_fp' = r.sample
                     /\ visited' = Append(visited, "Fingerprinted")
                     /\ calls' = cs
                     /\ UNCHANGED << db, i, input_file, working_file,
                                     output_file, base, reports, exit >>
                [] r.ctl = "return" ->
                     Return("Aborted", r.reason, db, visited, cs, NoScore)
                [] r.ctl = "exit" -> ExitProcess(r.reason, visited, cs)
    /\ UNCHANGED << variant, files >>
    /\ UNCHANGED << scoreVars, toolVars, apiVars >>

\* process_audio_file, steps 4 and 5
Persist ==
    /\ pc = "Fingerprinted"
    /\ \E ioS, ioA, ioF \in BOOLEAN :
          LET r == persist_and_score(db, input_file, output_file,
                                     DefaultSampleDuration, full_fp, sample_fp,
                                     ioS, ioA, ioF)
          IN  Return(r.status, r.reason, r.db, visited \o r.visited,
                     calls \o r.calls, r.score)
    /\ UNCHANGED << variant, files >>
    /\ UNCHANGED << scoreVars, toolVars, apiVars >>

Next ==
    \/ CreateDatabase
    \/ MainCall
    \/ MainSkip
    \/ MainDone
    \/ Convert
    \/ CreateSample
    \/ Fingerprint
    \/ Persist

Spec == Init /\ [][Next]_vars

\* the run as the interpreter executes it: one thread, no step waits on
\* anything but the call it makes, and every such call comes back, so a step
\* that can be taken is taken
FairSpec == Spec /\ WF_vars(Next)

----------------------------------------------------------------------------
(* The scorer on its own: calculate_percentage_match applied to drawn      *)
(* arguments, directly and behind the orchestrator's truncation            *)

ExFull == << "A", "B", "C", "D", "E", "F" >>
ExPrefix == << "A", "B", "C", "D" >>
ExHalf == << "X", "X", "C", "D" >>

FpInputs == SeqsUpTo({"A", "B"}, MaxFpLen) \cup {ExFull, ExPrefix, ExHalf}

InitScore ==
    /\ variant = "working"
    /\ files = << >>
    /\ db = DbFresh
    /\ pc = "score"
    /\ i = 1
    /\ IdleLocals
    /\ base = DbFresh
    /\ reports = << >>
    /\ exit = "none"
    /\ hash1 \in FpInputs
    /\ hash2 \in FpInputs
    /\ score = NoScore /\ score_rev = NoScore /\ score_plain = NoScore
    /\ IdleTools
    /\ lastcall = NoCall /\ ret = PyNone

\* calculate_percentage_match(hash1, hash2)
Score ==
    /\ pc = "score"
    /\ score' = calculate_percentage_match(hash1, hash2)
    /\ pc' = "scored"
    /\ UNCHANGED << variant, files, db, i, input_file, working_file,
                    output_file, full_fp, sample_fp, visited, calls, base,
                    reports, exit, hash1, hash2, score_rev, score_plain,
                    toolVars,
                    lastcall, ret >>

\* calculate_percentage_match(hash1[:len(hash2)], hash2)
Match ==
    /\ pc = "score"
    /\ score' = match_percentage(hash1, hash2)
    /\ pc' = "matched"
    /\ UNCHANGED << variant, files, db, i, input_file, working_file,
                    output_file, full_fp, sample_fp, visited, calls, base,
                    reports, exit, hash1, hash2, score_rev, score_plain,
                    toolVars,
                    lastcall, ret >>

\* calculate_percentage_match(hash1, hash2) and
\* calculate_percentage_match(hash2, hash1)
ScoreBoth ==
    /\ pc = "score"
    /\ score' = calculate_percentage_match(hash1, hash2)
    /\ score_rev' = calculate_percentage_match(hash2, hash1)
    /\ pc' = "both"
    /\ UNCHANGED << variant, files, db, i, input_file, working_file,
                    output_file, full_fp, sample_fp, visited, calls, base,
                    reports, exit, hash1, hash2, score_plain, toolVars,
                    lastcall, ret >>

\* the orchestrator's call with the arguments in either order:
\* calculate_percentage_match(hash1[:len(hash2)], hash2) and
\* calculate_percentage_match(hash2[:len(hash1)], hash1)
MatchBoth ==
    /\ pc = "score"
    /\ score' = match_percentage(hash1, hash2)
    /\ score_rev' = match_percentage(hash2, hash1)
    /\ pc' = "bothmatched"
    /\ UNCHANGED << variant, files, db, i, input_file, working_file,
                    output_file, full_fp, sample_fp, visited, calls, base,
                    reports, exit, hash1, hash2, score_plain, toolVars,
                    lastcall, ret >>

\* the orchestrator's call and the scorer called on the same arguments as
\* they are: calculate_percentage_match(hash1[:len(hash2)], hash2) and
\* calculate_percentage_match(hash1, hash2)
MatchAndScore ==
    /\ pc = "score"
    /\ score' = match_percentage(hash1, hash2)
    /\ score_plain' = calculate_percentage_match(hash1, hash2)
    /\ pc' = "compared"
    /\ UNCHANGED << variant, files, db, i, input_file, working_file,
                    output_file, full_fp, sample_fp, visited, calls, base,
                    reports, exit, hash1, hash2, score_rev, toolVars,
                    lastcall, ret >>

NextScore ==
    \/ Score
    \/ Match
    \/ ScoreBoth
    \/ MatchBoth
    \/ MatchAndScore

SpecScore == InitScore /\ [][NextScore]_vars

----------------------------------------------------------------------------
(* The catalog on its own: the four catalog functions called with drawn    *)
(* arguments.  i counts the calls made.                                    *)

ApiIds == {-1, 1, 2}
ApiPaths == { SamplePath([base |-> "song"], DefaultSampleDuration) }
ApiFps == {None, Some(FpA), Some(FpB)}
ApiIsrcs == {"None", "ISRC1", "ISRC2"}
ApiMbids == {"None", "MBID1"}

\* an existing catalog whose track carries an ISRC and an MBID
DbTagged ==
    [DbSeeded EXCEPT !.songs = << [SongRow(1, "old", DefaultSampleDuration)
                                     EXCEPT !.isrc = "ISRC1", !.mbid = "MBID1"] >>]

InitCatalog ==
    /\ variant \in {"working", "main3"}
    /\ files = << >>
    /\ db \in {DbFresh, DbEmpty, DbSeeded, DbTagged}
    /\ pc = "api"
    /\ i = 0
    /\ IdleLocals
    /\ base = db
    /\ reports = << >>
    /\ exit = "none"
    /\ IdleScore
    /\ IdleTools
    /\ lastcall = NoCall /\ ret = PyNone

ApiFrame ==
    UNCHANGED << variant, files, input_file, working_file, output_file,
                 full_fp, sample_fp, visited, calls, base, reports,
                 scoreVars, toolVars >>

ApiCreateDatabase ==
    /\ pc = "api" /\ i < MaxApiCalls
    /\ \E open \in BOOLEAN :
          LET r == create_database(db, open)
          IN  /\ db' = r.db
              /\ lastcall' = ApiCall("create_database", << >>, open,
                                     ~open \/ db.schema,
                                     IF ~open \/ db.schema
                                     THEN "OperationalError" ELSE "none")
              /\ ret' = PyNone
              /\ IF r.raised = "none"
                 THEN pc' = pc /\ exit' = exit
                 ELSE pc' = "exit" /\ exit' = r.raised
    /\ i' = i + 1
    /\ ApiFrame

ApiInsertSong ==
    /\ pc = "api" /\ i < MaxApiCalls
    /\ \E title \in {"song", "tune"}, isrc \in ApiIsrcs, mbid \in ApiMbids,
          io \in BOOLEAN :
          LET row == [SongRow(0, title, DefaultSampleDuration)
                        EXCEPT !.isrc = isrc, !.mbid = mbid]
              r == insert_song_data(db, row, io)
          IN  /\ db' = r.db
              /\ lastcall' = ApiCall("insert_song_data", << title, isrc, mbid >>,
                                     io, r.error, r.kind)
              /\ ret' = r.ret
    /\ i' = i + 1
    /\ UNCHANGED << pc, exit >>
    /\ ApiFrame

ApiInsertSample ==
    /\ pc = "api" /\ i < MaxApiCalls
    /\ \E song_id \in ApiIds, path \in ApiPaths, io \in BOOLEAN :
          LET r == insert_sample_data(db, song_id, path, DefaultSampleDuration,
                                      io)
          IN  /\ db' = r.db
              /\ lastcall' = ApiCall("insert_sample_data", << song_id, path >>,
                                     io, r.error, r.kind)
              /\ ret' = r.ret
    /\ i' = i + 1
    /\ UNCHANGED << pc, exit >>
    /\ ApiFrame

ApiInsertFingerprint ==
    /\ pc = "api" /\ i < MaxApiCalls
    /\ \E sample_id \in ApiIds, fp \in ApiFps, io \in BOOLEAN :
          LET r == insert_fingerprint_data(db, sample_id, fp, io)
          IN  /\ db' = r.db
              /\ lastcall' = ApiCall("insert_fingerprint_data",
                                     << sample_id, fp >>, io, r.error, r.kind)
              /\ ret' = r.ret
    /\ i' = i + 1
    /\ UNCHANGED << pc, exit >>
    /\ ApiFrame

NextCatalog ==
    \/ ApiCreateDatabase
    \/ ApiInsertSong
    \/ ApiInsertSample
    \/ ApiInsertFingerprint

SpecCatalog == InitCatalog /\ [][NextCatalog]_vars

----------------------------------------------------------------------------
(* The scan of fpcalc's standard output on its own: the loop of            *)
(* calculate_fingerprint (working.py, main3.py) and of get_fingerprint      *)
(* (main.py, variant "main") applied to drawn outputs.  stdout is the list  *)
(* result.stdout.splitlines(); a line is a sequence of characters.          *)

MaxValLen == 2

Marker == << "F", "I", "N", "G", "E", "R", "P", "R", "I", "N", "T", "=" >>

\* Python's  sub in line
Contains(line, sub) ==
    \E k \in 0..(Len(line) - Len(sub)) : SubSeq(line, k + 1, k + Len(sub)) = sub

\* Python's  line.startswith(sub)
StartsWith(line, sub) == IsPrefix(sub, line)

\* Python's  line.split(sep)  for a separator of one character
RECURSIVE Split(_, _)
Split(line, sep) ==
    IF \A k \in 1..Len(line) : line[k] # sep
    THEN << line >>
    ELSE LET k == CHOOSE j \in 1..Len(line) :
                      line[j] = sep /\ \A m \in 1..(j - 1) : line[m] # sep
         IN  << SubSeq(line, 1, k - 1) >>
             \o Split(SubSeq(line, k + 1, Len(line)), sep)

\* Python's  s.strip()
RECURSIVE Strip(_)
Strip(s) ==
    IF s = << >> THEN s
    ELSE IF Head(s) = " " THEN Strip(Tail(s))
    ELSE IF s[Len(s)] = " " THEN Strip(SubSeq(s, 1, Len(s) - 1))
    ELSE s

\* if "FINGERPRINT=" in line  /  if line.startswith("FINGERPRINT=")
HasMarker(v, line) ==
    IF v = "main" THEN StartsWith(line, Marker) ELSE Contains(line, Marker)

\* for line in result.stdout.splitlines():
\*     if <marker test>: return line.split("=")[1].strip()
\* return None
scan_stdout(v, lines) ==
    IF \A k \in 1..Len(lines) : ~HasMarker(v, lines[k])
    THEN None
    ELSE LET k == CHOOSE j \in 1..Len(lines) :
                      HasMarker(v, lines[j])
                      /\ \A m \in 1..(j - 1) : ~HasMarker(v, lines[m])
         IN  Some(Strip(Split(lines[k], "=")[2]))

\* what fpcalc may print before the marker, and after it
LinePrefixes == { << >>, << " " >>, << "x" >>, << "x", "=" >> }
LineValues == SeqsUpTo({"A", "=", " "}, MaxValLen)

\* lines with the marker, and lines without it
MarkerLines == { p \o Marker \o v : p \in LinePrefixes, v \in LineValues }
OtherLines == { << >>,
                << "D", "U", "R", "A", "T", "I", "O", "N", "=", "9" >>,
                << "F", "I", "N", "G", "E", "R", "P", "R", "I", "N", "T" >> }
Lines == MarkerLines \cup OtherLines

\* outputs of no line, of one line and of two lines
Outputs ==
    { << >> } \cup { << l >> : l \in Lines }
    \cup { << l1, l2 >> : l1 \in Lines, l2 \in Lines }

InitScan ==
    /\ variant \in {"working", "main3", "main"}
    /\ files = << >>
    /\ db = DbFresh
    /\ pc = "scan"
    /\ i = 1
    /\ IdleLocals
    /\ base = DbFresh
    /\ reports = << >>
    /\ exit = "none"
    /\ IdleScore
    /\ stdout \in Outputs
    /\ sample_duration = DefaultSampleDuration
    /\ formatted_duration = << >>
    /\ lastcall = NoCall /\ ret = PyNone

\* the loop over the lines of the output; what it returns lands in full_fp
Scan ==
    /\ pc = "scan"
    /\ full_fp' = scan_stdout(variant, stdout)
    /\ pc' = "scanned"
    /\ UNCHANGED << variant, files, db, i, input_file, working_file,
                    output_file, sample_fp, visited, calls, base, reports,
                    exit, scoreVars, toolVars, apiVars >>

NextScan ==
    \/ Scan

SpecScan == InitScan /\ [][NextScan]_vars

----------------------------------------------------------------------------
(* The -t argument of the sampling command on its own: the f-string of     *)
(* process_audio_file applied to drawn durations.  A string is a sequence  *)
(* of characters.                                                          *)

MaxDuration == 120

DigitChars == << "0", "1", "2", "3", "4", "5", "6", "7", "8", "9" >>

\* str(n) for n >= 0
RECURSIVE Digits(_)
Digits(n) ==
    IF n < 10 THEN << DigitChars[n + 1] >>
    ELSE Digits(n \div 10) \o << DigitChars[(n % 10) + 1] >>

\* f"{n:02d}" for n >= 0: zero-padded to a width of at least two
Format02d(n) == IF n < 10 THEN << "0" >> \o Digits(n) ELSE Digits(n)

\* formatted_duration = f"00:00:{sample_duration:02d}"
format_duration(d) == << "0", "0", ":", "0", "0", ":" >> \o Format02d(d)

InitDuration ==
    /\ variant = "working"
    /\ files = << >>
    /\ db = DbFresh
    /\ pc = "format"
    /\ i = 1
    /\ IdleLocals
    /\ base = DbFresh
    /\ reports = << >>
    /\ exit = "none"
    /\ IdleScore
    /\ stdout = << >>
    /\ sample_duration \in 0..MaxDuration
    /\ formatted_duration = << >>
    /\ lastcall = NoCall /\ ret = PyNone

\* the -t argument is built from sample_duration
FormatDuration ==
    /\ pc = "format"
    /\ formatted_duration' = format_duration(sample_duration)
    /\ pc' = "formatted"
    /\ UNCHANGED << variant, files, db, i, input_file, working_file,
                    output_file, full_fp, sample_fp, visited, calls, base,
                    reports, exit, scoreVars, stdout, sample_duration,
                    apiVars >>

NextDuration ==
    \/ FormatDuration

SpecDuration == InitDuration /\ [][NextDuration]_vars

----------------------------------------------------------------------------
(* Properties                                                              *)

InsertOps == {"insert_song_data", "insert_sample_data",
              "insert_fingerprint_data"}

Done == 1..Len(reports)

Ops(r) == { r.calls[j].op : j \in 1..Len(r.calls) }

States(r) == { r.visited[j] : j \in 1..Len(r.visited) }

FpCalls(r) == { j \in 1..Len(r.calls) : r.calls[j].op = "fpcalc" }

\* the file's conversion, sampling and both fingerprint extractions
\* succeeded, and no insert met a database that could not be written
ToolsSucceeded(r) ==
    /\ r.status \in {"Persisted", "Aborted"}
    /\ Cardinality(FpCalls(r)) = 2
    /\ \A j \in 1..Len(r.calls) :
          /\ r.calls[j].op \notin InsertOps => r.calls[j].res \in {"ok", "ran"}
          /\ r.calls[j].op = "fpcalc" => r.calls[j].got = "value"
          /\ r.calls[j].op \in InsertOps => r.calls[j].got = "io_ok"

\* C1 (as claimed): a file whose conversion, sampling and fingerprint
\* extractions succeed passes through Start, Converted, Sampled,
\* Fingerprinted, Scored and Persisted and leaves exactly one new Song row,
\* one new Sample row with the requested duration and one new Fingerprint row.
C1_EndToEnd ==
    \A k \in Done :
        ToolsSucceeded(reports[k]) =>
            /\ reports[k].status = "Persisted"
            /\ States(reports[k]) = {"Start", "Converted", "Sampled",
                                     "Fingerprinted", "Scored", "Persisted"}
            /\ Len(reports[k].songs) = 1
            /\ Len(reports[k].samples) = 1
            /\ reports[k].samples[1].sample_duration = DefaultSampleDuration
            /\ Len(reports[k].fingerprints) = 1

SongIds == { db.songs[k].song_id : k \in 1..Len(db.songs) }
SampleIds == { db.samples[k].sample_id : k \in 1..Len(db.samples) }

\* C2: in every reachable state every Sample row's song_id is the id of a
\* persisted Song row and every Fingerprint row's sample_id is the id of a
\* persisted Sample row; the failure value -1 is never stored as a key.
C2_ForeignKeys ==
    /\ \A k \in 1..Len(db.samples) :
          db.samples[k].song_id \in SongIds /\ db.samples[k].song_id # -1
    /\ \A k \in 1..Len(db.fingerprints) :
          db.fingerprints[k].sample_id \in SampleIds
          /\ db.fingerprints[k].sample_id # -1

\* a file's Song insert failed while the catalog holds linked rows
C2_Witness ==
    /\ Len(db.samples) > 0 /\ Len(db.fingerprints) > 0
    /\ \E k \in Done :
          \E j \in 1..Len(reports[k].calls) :
              /\ reports[k].calls[j].op = "insert_song_data"
              /\ reports[k].calls[j].res = "fail"

\* both fingerprint extractions ran and one of them gave None or ""
FpMissing(r) ==
    /\ Cardinality(FpCalls(r)) = 2
    /\ \A j \in FpCalls(r) : r.calls[j].res = "ran"
    /\ \E j \in FpCalls(r) : r.calls[j].got \in {"none", "empty"}

NoRows(r) == r.songs = << >> /\ r.samples = << >> /\ r.fingerprints = << >>

\* C3: a file whose full or sample fingerprint is missing (None or empty)
\* is given up with no insert attempted and no row written, and the run does
\* not end there: the loop takes the next entry of the listing.
C3_FingerprintMissing ==
    \A k \in Done :
        FpMissing(reports[k]) =>
            /\ reports[k].status = "Aborted"
            /\ reports[k].reason = "FingerprintMissing"
            /\ NoRows(reports[k])
            /\ Ops(reports[k]) \cap InsertOps = {}
            /\ i > k
            /\ (k < Len(files) /\ pc \in {"finished", "exit"})
                   => Len(reports) > k

\* a file with an empty fingerprint was given up and the next one was processed
C3_Witness ==
    \E k \in Done :
        /\ FpMissing(reports[k])
        /\ \E j \in FpCalls(reports[k]) : reports[k].calls[j].got = "empty"
        /\ Len(reports) > k
        /\ reports[k + 1].status = "Aborted"

FailedInserts(r) ==
    { j \in 1..Len(r.calls) :
        r.calls[j].op \in InsertOps /\ r.calls[j].res = "fail" }

\* C4: when an insert fails no later insert is attempted for the file, the
\* rows the catalog held before the file are unchanged, and the file leaves
\* 0 rows after a Song failure, the Song row after a Sample failure, the
\* Song and Sample rows after a Fingerprint failure.
C4_AbortRemainingInserts ==
    \A k \in Done :
        \A j \in FailedInserts(reports[k]) :
            LET r == reports[k]
                op == r.calls[j].op
            IN  /\ \A m \in 1..Len(r.calls) :
                      m > j => r.calls[m].op \notin InsertOps
                /\ r.kept
                /\ op = "insert_song_data" => NoRows(r)
                /\ op = "insert_sample_data" =>
                      Len(r.songs) = 1 /\ r.samples = << >>
                      /\ r.fingerprints = << >>
                /\ op = "insert_fingerprint_data" =>
                      Len(r.songs) = 1 /\ Len(r.samples) = 1
                      /\ r.fingerprints = << >>

\* a Song insert failed on a writable catalog that already held rows
C4_Witness ==
    \E k \in Done :
        /\ \E j \in FailedInserts(reports[k]) :
              /\ reports[k].calls[j].op = "insert_song_data"
              /\ reports[k].calls[j].got = "io_ok"
        /\ reports[k].status = "Aborted"
        /\ reports[k].reason = "InsertFailed"
        /\ Len(db.songs) > 0

\* C5 (as claimed): every catalog insert that fails reports it to its
\* caller: insert_song_data and insert_sample_data return -1, and
\* insert_fingerprint_data returns something other than its success value.
C5_FailuresReported ==
    lastcall.error =>
        /\ lastcall.op \in {"insert_song_data", "insert_sample_data"}
              => ret = PyInt(-1)
        /\ lastcall.op = "insert_fingerprint_data" => ret # PyNone

MissingCalls(r) == { j \in 1..Len(r.calls) : r.calls[j].res = "missing" }

\* C6 (as claimed): per-file failures never end the run; a run that ends
\* before the listing is exhausted ended because a tool binary was missing,
\* and a run that finishes has taken every entry of the listing.
C6_OnlyToolMissingEnds ==
    /\ (pc = "exit" /\ i <= Len(files)) =>
          /\ reports # << >>
          /\ MissingCalls(reports[Len(reports)]) # {}
    /\ pc = "finished" =>
          /\ Len(reports) = Len(files)
          /\ \A k \in Done :
                /\ reports[k].file = files[k]
                /\ Supported(files[k])
                      => reports[k].status \in {"Persisted", "Aborted"}

\* C7 (as claimed): a tool binary that is not found ends the run at once:
\* the call that missed it is the last call of the last file, and that file
\* is not given up as a per-file failure.
C7_ToolMissingIsFatal ==
    \A k \in Done :
        \A j \in MissingCalls(reports[k]) :
            /\ reports[k].status = "Exited"
            /\ j = Len(reports[k].calls)
            /\ k = Len(reports)
            /\ pc = "exit"

Returned == pc \in {"scored", "matched"}

\* C8: the score lies in [0.0, 100.0], called directly or behind the
\* orchestrator's truncation.
C8_ScoreRange ==
    Returned =>
        /\ ~score.err
        /\ score.den > 0
        /\ 0 <= score.num
        /\ score.num <= 100 * score.den

\* a score strictly between 0 and 100, reached through the truncation
C8_Witness ==
    /\ pc = "matched"
    /\ Len(hash1) > Len(hash2)
    /\ 0 < score.num /\ score.num < 100 * score.den

\* indices below n at which the two strings agree
Agree(h1, h2, n) == { k \in 1..n : h1[k] = h2[k] }

NonEmptyArgs == hash1 # << >> /\ hash2 # << >>

\* the score is 100 * |Agree| / min(len, len)
ScoreIsMatchRate ==
    LET n == Min(Len(hash1), Len(hash2))
    IN  /\ ~score.err
        /\ score.den = n
        /\ score.num = 100 * Cardinality(Agree(hash1, hash2, n))

ScoreExamples ==
    /\ (hash1 = ExFull /\ hash2 = ExPrefix) => score.num = 100 * score.den
    /\ (hash1 = ExFull /\ hash2 = ExHalf) => score.num = 50 * score.den

\* C9 (as claimed): for non-empty strings the score is the match rate over
\* n = min(len(full), len(sample)), and behind the truncation the compared
\* length is the sample's length.
C9_Original ==
    (Returned /\ NonEmptyArgs) =>
        /\ ScoreIsMatchRate
        /\ ScoreExamples
        /\ pc = "matched" => score.den = Len(hash2)

\* C9 (amended): for non-empty strings the score is the match rate over
\* n = min(len(full), len(sample)); behind the truncation the compared length
\* is the sample's length when the full fingerprint is at least as long as
\* the sample's, and the full fingerprint's length when it is shorter.
C9_MatchRate ==
    (Returned /\ NonEmptyArgs) =>
        /\ ScoreIsMatchRate
        /\ ScoreExamples
        /\ (pc = "matched" /\ Len(hash1) >= Len(hash2))
              => score.den = Len(hash2)
        /\ (pc = "matched" /\ Len(hash1) < Len(hash2))
              => score.den = Len(hash1)

\* a full fingerprint shorter than the sample's, behind the truncation:
\* one character is compared, and it matches
C9_Witness ==
    /\ pc = "matched"
    /\ hash1 = << "A" >> /\ hash2 = << "A", "B" >>
    /\ score = Float(100, 1)

\* C10: with an empty argument the scorer returns exactly 0.0 without
\* dividing.
C10_EmptyIsZero ==
    (pc = "scored" /\ (hash1 = << >> \/ hash2 = << >>)) =>
        score = Float(0, 1)

\* score(x, "") for a non-empty x
C10_Witness ==
    /\ pc = "scored"
    /\ hash1 # << >> /\ hash2 = << >>
    /\ score = Float(0, 1)

\* two scores denote the same number
SameFloat(x, y) == x.err = y.err /\ x.num * y.den = y.num * x.den

\* the two fingerprints agree at some compared position and differ at another
PartialOverlap(a, b) ==
    LET n == Min(Len(a), Len(b))
    IN  /\ \E k \in 1..n : a[k] = b[k]
        /\ \E k \in 1..n : a[k] # b[k]

\* C11 as stated: once both argument orders have been scored, the inputs the
\* scorer can be given include a pair of different lengths, overlapping
\* partially, that the scorer or the orchestrator's truncated call scores
\* differently in the two orders.
C11_Original ==
    pc \in {"both", "bothmatched"} =>
        \E a, b \in FpInputs :
            /\ Len(a) # Len(b)
            /\ PartialOverlap(a, b)
            /\ \/ ~SameFloat(calculate_percentage_match(a, b),
                              calculate_percentage_match(b, a))
               \/ ~SameFloat(match_percentage(a, b), match_percentage(b, a))

\* C11 (amended): the scorer is symmetric.  Whenever both orders have been
\* scored, directly or behind the truncation, the two values are equal,
\* also for arguments of different lengths that overlap partially.
C11_Symmetric ==
    pc \in {"both", "bothmatched"} => SameFloat(score, score_rev)

C11_Witness ==
    /\ pc = "bothmatched"
    /\ hash1 = ExFull /\ hash2 = ExHalf
    /\ Len(hash1) # Len(hash2) /\ PartialOverlap(hash1, hash2)
    /\ score = Float(200, 4) /\ score_rev = Float(200, 4)

\* the first line of the output that contains the marker (0 if none does)
FirstMarked(lines) ==
    IF \A k \in 1..Len(lines) : ~Contains(lines[k], Marker) THEN 0
    ELSE CHOOSE j \in 1..Len(lines) :
             Contains(lines[j], Marker)
             /\ \A m \in 1..(j - 1) : ~Contains(lines[m], Marker)

\* the whole of a line after the first occurrence of the marker
AfterMarker(line) ==
    LET k == CHOOSE j \in 0..(Len(line) - Len(Marker)) :
                 /\ SubSeq(line, j + 1, j + Len(Marker)) = Marker
                 /\ \A m \in 0..(j - 1) :
                        SubSeq(line, m + 1, m + Len(Marker)) # Marker
    IN  SubSeq(line, k + Len(Marker) + 1, Len(line))

\* leading and trailing blanks removed, the rest kept as it is
Trimmed(s, t) ==
    /\ t = << >> \/ (t[1] # " " /\ t[Len(t)] # " ")
    /\ \E a \in 0..Len(s) :
          /\ a + Len(t) <= Len(s)
          /\ SubSeq(s, a + 1, a + Len(t)) = t
          /\ \A k \in (1..a) \cup ((a + Len(t) + 1)..Len(s)) : s[k] = " "

\* C12: the scan returns, for the first line that contains the marker, the
\* whole text after the marker with the blanks around it removed, also when
\* that text holds an "=" or when text precedes the marker; it returns None
\* when no line contains the marker.
C12_MarkerValue ==
    pc = "scanned" =>
        IF FirstMarked(stdout) = 0
        THEN full_fp = None
        ELSE /\ full_fp.some
             /\ Trimmed(AfterMarker(stdout[FirstMarked(stdout)]), full_fp.val)

\* a persisted song carries the same non-null ISRC or MBID as the row
Duplicate(d, isrc, mbid) ==
    \E k \in 1..Len(d.songs) :
        \/ isrc # "None" /\ d.songs[k].isrc = isrc
        \/ mbid # "None" /\ d.songs[k].mbid = mbid

\* C13: on a catalog that can be written, a song insert whose non-null ISRC or MBID is already persisted fails
\* with a constraint violation, returns -1 and leaves the songs as they
\* were; an insert with neither ISRC nor MBID never meets a constraint
\* violation.
C13_UniqueWhenPresent ==
    [][ (i' = i + 1 /\ lastcall'.op = "insert_song_data"
         /\ lastcall'.io /\ db.schema) =>
            LET isrc == lastcall'.args[2]
                mbid == lastcall'.args[3]
            IN  /\ Duplicate(db, isrc, mbid) =>
                       /\ ret' = PyInt(-1)
                       /\ lastcall'.kind = "IntegrityError"
                       /\ db'.songs = db.songs
                /\ (isrc = "None" /\ mbid = "None") =>
                       lastcall'.kind # "IntegrityError" ]_vars

\* the sample file of a report: the file of its second fingerprint extraction
SampleFile(r) ==
    r.calls[CHOOSE j \in FpCalls(r) : \A m \in FpCalls(r) : m <= j].path

ReachedInserts(r) == "Fingerprinted" \in States(r) /\ Ops(r) \cap InsertOps # {}

\* the position of a pipeline state in the states a file passed (0: not passed)
Position(r, st) ==
    IF st \notin States(r) THEN 0
    ELSE CHOOSE j \in 1..Len(r.visited) : r.visited[j] = st

SampleOps == {"ffmpeg_sample", "pydub_sample"}

\* C16: a failed conversion or a failed sample creation is the last step of
\* its file: the file ends Aborted with ConversionFailed or SamplingFailed
\* and no sampling, fingerprinting or insert follows; a file whose name ends
\* in ".wav", in whatever case, is never transcoded.
C16_FailureEndsFile ==
    /\ \A k \in Done :
          LET r == reports[k]
          IN  /\ \A j \in 1..Len(r.calls) :
                    /\ (r.calls[j].op = "ffmpeg_convert"
                          /\ r.calls[j].res = "fail") =>
                          /\ j = Len(r.calls)
                          /\ r.status = "Aborted"
                          /\ r.reason = "ConversionFailed"
                          /\ States(r) \subseteq {"Start"}
                          /\ NoRows(r)
                    /\ (r.calls[j].op \in SampleOps
                          /\ r.calls[j].res = "fail") =>
                          /\ j = Len(r.calls)
                          /\ r.status = "Aborted"
                          /\ r.reason = "SamplingFailed"
                          /\ States(r) \subseteq {"Start", "Converted"}
                          /\ NoRows(r)
              /\ LowerExt(r.file.ext) = "wav" => "ffmpeg_convert" \notin Ops(r)
    /\ (pc \in {"Start", "Converted", "Sampled", "Fingerprinted"}
          /\ LowerExt(files[i].ext) = "wav") =>
          \A j \in 1..Len(calls) : calls[j].op # "ffmpeg_convert"

\* one run in which a conversion failed and the sampling of a file named
\* .WAV, which was not transcoded, failed
C16_Witness ==
    /\ \E k \in Done :
          /\ reports[k].reason = "ConversionFailed"
          /\ reports[k].calls[Len(reports[k].calls)].op = "ffmpeg_convert"
    /\ \E k \in Done :
          /\ reports[k].file.ext = "WAV"
          /\ Ops(reports[k]) \cap SampleOps # {}
          /\ \E j \in 1..Len(reports[k].calls) :
                reports[k].calls[j].op \in SampleOps
                /\ reports[k].calls[j].res = "fail"

\* C17: the first fingerprint extraction of a file, the 'full' one, reads
\* the original input file, also when the file was transcoded to WAV for
\* sampling; the second, the 'sample' one, reads the generated sample.
C17_FullFromOriginal ==
    \A k \in Done :
        LET r == reports[k]
            fp == { j \in 1..Len(r.calls) : r.calls[j].op = "fpcalc" }
        IN  \A j \in fp :
                IF \A m \in fp : j <= m
                THEN r.calls[j].path = InputPath(r.file)
                ELSE /\ r.calls[j].path.kind = "sample"
                     /\ r.calls[j].path.base = r.file.base
                     /\ r.calls[j].path.dur = DefaultSampleDuration

\* C18: the catalog is append-only.  No step of main or process_audio_file,
\* a failed insert with its rollback and create_database on an existing
\* catalog included, changes or deletes a row persisted earlier: the three
\* tables only grow at their ends.
C18_AppendOnly ==
    [][ /\ IsPrefix(db.songs, db'.songs)
        /\ IsPrefix(db.samples, db'.samples)
        /\ IsPrefix(db.fingerprints, db'.fingerprints) ]_vars

\* create_database has run on a catalog that held rows, an insert has
\* failed since, and the rows are still there
C18_Witness ==
    /\ pc = "loop"
    /\ db = DbSeeded
    /\ \E k \in Done : FailedInserts(reports[k]) # {} /\ reports[k].kept

IsDigit(c) == \E v \in 1..10 : DigitChars[v] = c

DigitVal(c) == (CHOOSE v \in 1..10 : DigitChars[v] = c) - 1

\* the value of the two-digit field of s that starts at position k
Field(s, k) == 10 * DigitVal(s[k]) + DigitVal(s[k + 1])

\* HH:MM:SS with two-digit fields, minutes and seconds below 60
WellFormed(s) ==
    /\ Len(s) = 8
    /\ s[3] = ":" /\ s[6] = ":"
    /\ \A k \in {1, 2, 4, 5, 7, 8} : IsDigit(s[k])
    /\ Field(s, 4) < 60
    /\ Field(s, 7) < 60

\* C19: for every requested duration d >= 0 the -t argument is a well-formed
\* HH:MM:SS string (two-digit fields, minutes and seconds below 60) that
\* denotes exactly d seconds.
C19_TrimArgument ==
    pc = "formatted" =>
        /\ WellFormed(formatted_duration)
        /\ 3600 * Field(formatted_duration, 1)
             + 60 * Field(formatted_duration, 4)
             + Field(formatted_duration, 7) = sample_duration

\* the calls of a report that are calls of one function
CallsOf(r, op) == { j \in 1..Len(r.calls) : r.calls[j].op = op }

\* the Fingerprint rows of the catalog that belong to a Sample row
Owned(s) ==
    { m \in 1..Len(db.fingerprints) :
        db.fingerprints[m].sample_id = s.sample_id }

\* C20: a file causes at most one Song insert, one Sample insert and one
\* Fingerprint insert; the rows it leaves are nested, a Sample row only with
\* its Song row and a Fingerprint row only with its Sample row; and a Sample
\* row written for a file owns at most one Fingerprint row.
C20_OneInsertEach ==
    \A k \in Done :
        LET r == reports[k]
        IN  /\ \A op \in InsertOps : Cardinality(CallsOf(r, op)) <= 1
            /\ Len(r.songs) <= 1
            /\ Len(r.samples) <= Len(r.songs)
            /\ Len(r.fingerprints) <= Len(r.samples)
            /\ \A m \in 1..Len(r.samples) :
                  Cardinality(Owned(r.samples[m])) <= 1

\* a batch of two files, each of which got as far as its Song insert
C20_Witness ==
    /\ Len(reports) = 2
    /\ \A k \in Done :
          Cardinality(CallsOf(reports[k], "insert_song_data")) = 1

\* the run is over: the listing is exhausted or the process has ended
Halted == pc \in {"finished", "exit"}

\* the process ended at a call that did not find its tool
EndedByToolMissing ==
    /\ pc = "exit"
    /\ reports # << >>
    /\ MissingCalls(reports[Len(reports)]) # {}

\* every supported entry of the listing has its one report, Persisted or
\* Aborted
AllTerminal ==
    \A k \in 1..Len(files) :
        Supported(files[k]) =>
            /\ k <= Len(reports)
            /\ reports[k].file = files[k]
            /\ reports[k].status \in {"Persisted", "Aborted"}

\* C21: when every call comes back, the run over a finite listing ends;
\* the entries are taken once each and in order; and when the run is over
\* every supported file is Persisted or Aborted, unless a missing tool ended
\* the run.
C21_TerminatesAllTerminal ==
    /\ <>Halted
    /\ [](/\ Len(reports) <= Len(files)
          /\ \A k \in Done : reports[k].file = files[k]
          /\ Halted => (EndedByToolMissing \/ AllTerminal))

\* C22: the truncation changes nothing.  The score of the full fingerprint
\* cut to the sample's length is the score of the full fingerprint as it
\* is, for all arguments, also when the full fingerprint is the shorter one
\* or an argument is empty.
C22_TruncationRedundant ==
    pc = "compared" => SameFloat(score, score_plain)

\* a full fingerprint longer than the sample's that agrees with it in part
C22_Witness ==
    /\ pc = "compared"
    /\ hash1 = ExFull /\ hash2 = ExHalf
    /\ Truncate(hash1, hash2) # hash1
    /\ score = Float(200, 4) /\ score_plain = Float(200, 4)

\* the file was sampled and both fingerprint extractions were started
Sampled2(r) == Cardinality(FpCalls(r)) = 2

\* the file was transcoded
Transcoded(r) ==
    \E j \in 1..Len(r.calls) :
        r.calls[j].op = "ffmpeg_convert" /\ r.calls[j].res = "ok"

\* the file the sample was cut from
SampledFrom(r) ==
    r.calls[CHOOSE j \in 1..Len(r.calls) : r.calls[j].op \in SampleOps].path

\* C23: the sample path is made of the output folder, the source's base
\* name and the duration alone, and the transcoded WAV path of the output
\* folder and the base name alone; so two files of one batch with the same
\* base name and different extensions get the same WAV path and the same
\* sample path.
C23_PathFromBaseName ==
    /\ \A k \in Done :
          LET r == reports[k]
          IN  /\ Sampled2(r) =>
                    SampleFile(r) = [dir |-> "out", base |-> r.file.base,
                                     kind |-> "sample",
                                     dur |-> DefaultSampleDuration,
                                     ext |-> "wav"]
              /\ Transcoded(r) =>
                    SampledFrom(r) = [dir |-> "out", base |-> r.file.base,
                                      kind |-> "plain", dur |-> 0,
                                      ext |-> "wav"]
    /\ \A k, m \in Done :
          (reports[k].file.base = reports[m].file.base) =>
              /\ (Sampled2(reports[k]) /\ Sampled2(reports[m])) =>
                    SampleFile(reports[k]) = SampleFile(reports[m])
              /\ (Transcoded(reports[k]) /\ Transcoded(reports[m])) =>
                    SampledFrom(reports[k]) = SampledFrom(reports[m])

\* song.mp3 and song.flac in one batch, both transcoded and sampled: two
\* distinct files with one WAV path and one sample path
C23_Witness ==
    \E k, m \in Done :
        /\ reports[k].file = [base |-> "song", ext |-> "mp3"]
        /\ reports[m].file = [base |-> "song", ext |-> "flac"]
        /\ Transcoded(reports[k]) /\ Transcoded(reports[m])
        /\ Sampled2(reports[k]) /\ Sampled2(reports[m])
        /\ SampledFrom(reports[k]) = SampledFrom(reports[m])
        /\ SampleFile(reports[k]) = SampleFile(reports[m])

============================================================================
